---- MODULE Spec2Model ----
(***************************************************************************)
(* Model of app.py: the RSS -> summary -> Telegram pipeline with its       *)
(* seen-links store on the Hugging Face Hub and the background loop that   *)
(* runs one cycle after another.                                           *)
(*                                                                         *)
(* Strings are sequences of character codes, so that writing the file and  *)
(* reading it back (f"{link}\n", line iteration, str.strip) are computed   *)
(* and not assumed.                                                        *)
(***************************************************************************)
EXTENDS Integers, Sequences, FiniteSets, TLC

VARIABLES
    feeds,            \* what each feed URL serves: its entries' links, in document order
    remote,           \* seen_links.txt in the dataset repository, or Missing
    pc,               \* where the background thread is
    idx,              \* position of the loop over RSS_URLS
    seen_articles,    \* local variable of run_pipeline
    new_links_added,  \* local variable of run_pipeline
    sleeping,         \* seconds of the time.sleep the thread is in, 0 when it is not
    loaded,           \* what get_seen_links returned to the cycle
    log,              \* the calls of the cycle, in order
    session_state,    \* st.session_state of each browser session: the keys it holds
    threads,          \* the background_task thread each session's script run started
    notified          \* per link, what earlier cycles' send_telegram_message calls did

vars == <<feeds, remote, pc, idx, seen_articles, new_links_added, sleeping, loaded, log,
          session_state, threads, notified>>

(***************************************************************************)
(* Bounds of the model.                                                    *)
(***************************************************************************)
\* number of configured feeds (RSS_URLS has four; the loop is the same for any)
NumFeeds == 2
\* number of distinct article links the feeds can carry
MaxLink == 2
\* total number of entries over all feeds
MaxEntries == 2
\* store round trip: longest identifier and largest set handed to the store
MaxLinkLen == 1
MaxSetSize == 2
\* number of browser sessions that open the app
MaxSessions == 2

(***************************************************************************)
(* Program constants.                                                      *)
(***************************************************************************)
LF == 10
CR == 13
SP == 32
IntervalSeconds == 1800
CooldownSeconds == 60

RSS_URLS == 1 .. NumFeeds

\* the browser sessions; Streamlit keeps one st.session_state for each
Sessions == 1 .. MaxSessions

\* the threads the script runs can start: the guard lets each session start one
Threads == 1 .. MaxSessions

\* a thread that was not started
NotStarted == [pc |-> "none", idx |-> 1, seen |-> {}, added |-> FALSE]

\* threading.Thread(target=background_task, daemon=True).start(): the thread
\* is at the top of the while loop
Started == [pc |-> "start", idx |-> 1, seen |-> {}, added |-> FALSE]

\* the links feedparser hands out in the pipeline: "a", "b", "c", ...
Links == {<<96 + i>> : i \in 1 .. MaxLink}

\* publication time of an article; the feed document may list entries in any
\* order relative to it
Published(link) == link[1]

FeedContents == UNION {[1 .. n -> Links] : n \in 0 .. MaxEntries}

TotalEntries(fc) ==
    LET RECURSIVE Sum(_)
        Sum(f) == IF f = 0 THEN 0 ELSE Len(fc[f]) + Sum(f - 1)
    IN Sum(NumFeeds)

FeedConfigs == {fc \in [RSS_URLS -> FeedContents] : TotalEntries(fc) <= MaxEntries}

\* identifiers handed to the store in the round-trip specification
Alphabet == {97, 98, SP, LF, CR}
StoreLinks == UNION {[1 .. n -> Alphabet] : n \in 0 .. MaxLinkLen}
StoreSets ==
    {{}} \cup {{t[i] : i \in 1 .. MaxSetSize} : t \in [1 .. MaxSetSize -> StoreLinks]}

\* the remote artifact does not exist
Missing == <<-1>>

(***************************************************************************)
(* Text file of the store: update_seen_links writes, get_seen_links reads. *)
(***************************************************************************)
\* the white space str.strip() removes, among the characters used here
IsSpace(c) == c \in {SP, LF, CR, 9, 11, 12}

RECURSIVE LStrip(_)
LStrip(s) == IF s # <<>> /\ IsSpace(Head(s)) THEN LStrip(Tail(s)) ELSE s

RECURSIVE RStrip(_)
RStrip(s) ==
    IF s # <<>> /\ IsSpace(s[Len(s)]) THEN RStrip(SubSeq(s, 1, Len(s) - 1)) ELSE s

\* str.strip()
Strip(s) == RStrip(LStrip(s))

\* iteration over the file opened with open(local_path, 'r'): each line runs
\* up to and including its line break, and a last line without one is a line
\* too; in text mode "\r\n" and "\r" end a line as "\n" does and are read
\* as "\n"
RECURSIVE FileLines(_, _)
FileLines(file, cur) ==
    IF file = <<>> THEN (IF cur = <<>> THEN <<>> ELSE <<cur>>)
    ELSE IF Head(file) = LF
    THEN <<Append(cur, LF)>> \o FileLines(Tail(file), <<>>)
    ELSE IF Head(file) = CR
    THEN IF Len(file) >= 2 /\ file[2] = LF
         THEN <<Append(cur, LF)>> \o FileLines(Tail(Tail(file)), <<>>)
         ELSE <<Append(cur, LF)>> \o FileLines(Tail(file), <<>>)
    ELSE FileLines(Tail(file), Append(cur, Head(file)))

ParseFile_NoStrip(file) ==
    LET lines == FileLines(file, <<>>)
    IN {lines[i] : i \in 1 .. Len(lines)}

\* set(line.strip() for line in f)
ParseFile(file) ==
    LET lines == FileLines(file, <<>>)
    IN {Strip(lines[i]) : i \in 1 .. Len(lines)}

\* one f.write(f"{link}\n")
WriteLine_NoNewline(link) == link
WriteLine(link) == link \o <<LF>>

\* for link in seen_links: f.write(...), in the iteration order of the set
RECURSIVE SerializeLinks(_)
SerializeLinks(order) ==
    IF order = <<>> THEN <<>> ELSE WriteLine(Head(order)) \o SerializeLinks(Tail(order))

\* the orders in which the set can be iterated
Orders(S) ==
    {o \in [1 .. Cardinality(S) -> S] : \A x \in S : \E i \in DOMAIN o : o[i] = x}

DownloadOutcomes == {"ok", "error"}
UploadOutcomes == {"ok", "error"}

\* get_seen_links: the set read from the downloaded file, or set() when the
\* download or the read raised; raised tells whether an exception leaves it
GetSeenLinks_Forgets(store, outcome) ==
    IF store = Missing \/ outcome # "ok"
    THEN [links |-> {}, res |-> "fresh", raised |-> FALSE]
    ELSE [links |-> {}, res |-> "ok", raised |-> FALSE]
GetSeenLinks_Raises(store, outcome) ==
    IF store = Missing \/ outcome # "ok"
    THEN [links |-> {}, res |-> "fresh", raised |-> TRUE]
    ELSE [links |-> ParseFile(store), res |-> "ok", raised |-> FALSE]
GetSeenLinks(store, outcome) ==
    IF store = Missing \/ outcome # "ok"
    THEN [links |-> {}, res |-> "fresh", raised |-> FALSE]
    ELSE [links |-> ParseFile(store), res |-> "ok", raised |-> FALSE]

UpdateSeenLinks_DropsFirst(store, order, outcome) ==
    [remote |-> IF outcome = "ok" THEN SerializeLinks(Tail(order)) ELSE store,
     res |-> outcome]
UpdateSeenLinks_Overwrites(store, order, outcome) ==
    [remote |-> SerializeLinks(order), res |-> outcome]

\* update_seen_links: the lines are written to the local file, which is then
\* uploaded over the remote artifact; a failing write or upload is caught and
\* leaves the remote artifact as it was.  The local file is never read back
\* by the program (get_seen_links reads the download), so it is not kept.
UpdateSeenLinks(store, order, outcome) ==
    [remote |-> IF outcome = "ok" THEN SerializeLinks(order) ELSE store,
     res |-> outcome]

(***************************************************************************)
(* One cycle: run_pipeline.                                                *)
(***************************************************************************)
NoLink == <<>>

Event(op, f, link, res) == [op |-> op, feed |-> f, link |-> link, res |-> res]

\* scrape_article_text: the extracted text, or None after any failure
ScrapeOutcomes == {"text", "none"}
\* summarize_text and the formatting of the message have no handler: an
\* exception raised there leaves run_pipeline
SummarizeOutcomes == {"ok", "raise"}
\* send_telegram_message: status 200, another status, or an exception of
\* requests.post; all three are handled inside it
SendOutcomes == {"200", "non200", "error"}

Reversed_Forward(entries) == entries

\* for entry in reversed(feed.entries)
RECURSIVE Reversed(_)
Reversed(entries) ==
    IF entries = <<>> THEN <<>> ELSE Append(Reversed(Tail(entries)), Head(entries))

FetchEntries_Stale(content, fetchOK) == content

\* feedparser.parse(url).entries: the entries of the document, none when the
\* fetch or the parse failed (feedparser reports the failure in the result's
\* bozo fields; run_pipeline has no handler of its own around the call)
FetchEntries(content, fetchOK) == IF fetchOK THEN content ELSE <<>>

AddAfterSend_Forgets(seen, link, status) == seen
AddAfterSend_NotOnError(seen, link, status) ==
    IF status = "error" THEN seen ELSE seen \cup {link}
AddAfterSend_OnlyOn200(seen, link, status) ==
    IF status = "200" THEN seen \cup {link} ELSE seen

\* seen_articles.add(article_link) follows send_telegram_message, whatever the
\* delivery did
AddAfterSend(seen, link, status) == seen \cup {link}

\* the body of "if article_link not in seen_articles", up to the break
ProcessEntry(f, link, seen, added, text, sum, status) ==
    IF text # "text"
    THEN [seen |-> seen, added |-> added, raised |-> FALSE,
          events |-> <<Event("scrape", f, link, "none")>>]
    ELSE IF sum = "raise"
    THEN [seen |-> seen, added |-> added, raised |-> TRUE,
          events |-> <<Event("scrape", f, link, "text"),
                       Event("summarize", f, link, "raise")>>]
    ELSE [seen |-> AddAfterSend(seen, link, status), added |-> TRUE, raised |-> FALSE,
          events |-> <<Event("scrape", f, link, "text"),
                       Event("summarize", f, link, "ok"),
                       Event("send", f, link, status)>>
                     \o (IF link \in AddAfterSend(seen, link, status)
                         THEN <<Event("add", f, link, "ok")>> ELSE <<>>)]

BreakAfter_Never(text) == FALSE
BreakAfter_OnlyOnText(text) == text = "text"

\* the break that ends the scan of a feed after its first unseen entry; it is
\* outside the if/else on full_text, so it runs with or without text
BreakAfter(text) == TRUE

\* the scan of one feed's entries, in the order the loop visits them
RECURSIVE ScanEntries(_, _, _, _, _, _, _)
ScanEntries(f, es, seen, added, text, sum, status) ==
    IF es = <<>>
    THEN [seen |-> seen, added |-> added, raised |-> FALSE, events |-> <<>>]
    ELSE IF Head(es) \in seen
    THEN ScanEntries(f, Tail(es), seen, added, text, sum, status)
    ELSE LET r == ProcessEntry(f, Head(es), seen, added, text, sum, status)
         IN IF r.raised \/ BreakAfter(text)
            THEN r
            ELSE LET q == ScanEntries(f, Tail(es), r.seen, r.added, text, sum, status)
                 IN [seen |-> q.seen, added |-> q.added, raised |-> q.raised,
                     events |-> r.events \o q.events]

OnException_Dies == [pc |-> "dead", secs |-> 0]

\* what background_task does with an exception that leaves run_pipeline:
\* except Exception, then time.sleep(60)
OnException == [pc |-> "cooldown", secs |-> CooldownSeconds]

\* what background_task does when run_pipeline returns: time.sleep(1800)
OnReturn == [pc |-> "sleep", secs |-> IntervalSeconds]

ShouldSave_Always(added) == TRUE
ShouldSave_Never(added) == FALSE

\* if new_links_added: update_seen_links(seen_articles)
ShouldSave(added) == added

(***************************************************************************)
(* Actions of the background thread.                                       *)
(***************************************************************************)
\* run_pipeline, from get_seen_links() to the start of the loop over RSS_URLS
LoadSeen ==
    /\ pc = "start"
    /\ \E outcome \in DownloadOutcomes :
          LET r == GetSeenLinks(remote, outcome)
          IN IF r.raised
             THEN /\ pc' = OnException.pc
                  /\ sleeping' = OnException.secs
                  /\ log' = <<Event("load", 0, NoLink, "raise")>>
                  /\ UNCHANGED <<seen_articles, loaded, new_links_added, idx>>
             ELSE /\ pc' = "feeds"
                  /\ sleeping' = 0
                  /\ seen_articles' = r.links
                  /\ loaded' = r.links
                  /\ new_links_added' = FALSE
                  /\ idx' = 1
                  /\ log' = <<Event("load", 0, NoLink, r.res)>>
    /\ UNCHANGED <<feeds, remote>>
    /\ UNCHANGED <<session_state, threads, notified>>

\* one iteration of "for url in RSS_URLS"
ProcessFeed ==
    /\ pc = "feeds"
    /\ idx <= NumFeeds
    /\ \E fetchOK \in BOOLEAN, text \in ScrapeOutcomes,
          sum \in SummarizeOutcomes, status \in SendOutcomes :
          LET entries == FetchEntries(feeds[idx], fetchOK)
              r == ScanEntries(idx, Reversed(entries), seen_articles,
                               new_links_added, text, sum, status)
          IN /\ seen_articles' = r.seen
             /\ new_links_added' = r.added
             /\ log' = Append(log, Event("fetch", idx, NoLink,
                                         IF fetchOK THEN "ok" ELSE "fail"))
                       \o r.events
             /\ IF r.raised
                THEN pc' = OnException.pc /\ sleeping' = OnException.secs /\ idx' = idx
                ELSE pc' = "feeds" /\ sleeping' = 0 /\ idx' = idx + 1
    /\ UNCHANGED <<feeds, remote, loaded>>
    /\ UNCHANGED <<session_state, threads, notified>>

\* the end of run_pipeline: upload when a link was added
SaveDecision ==
    /\ pc = "feeds"
    /\ idx > NumFeeds
    /\ IF ShouldSave(new_links_added)
       THEN \E order \in Orders(seen_articles), outcome \in UploadOutcomes :
               LET r == UpdateSeenLinks(remote, order, outcome)
               IN /\ remote' = r.remote
                  /\ log' = Append(log, Event("save", 0, NoLink, r.res))
       ELSE UNCHANGED <<remote, log>>
    /\ pc' = OnReturn.pc
    /\ sleeping' = OnReturn.secs
    /\ UNCHANGED <<feeds, idx, seen_articles, new_links_added, loaded>>
    /\ UNCHANGED <<session_state, threads, notified>>

\* time.sleep(1800) returns: the while loop starts the next cycle
Sleep ==
    /\ pc = "sleep"
    /\ sleeping' = 0
    /\ pc' = "start"
    /\ UNCHANGED <<feeds, remote, idx, seen_articles, new_links_added, loaded, log>>
    /\ UNCHANGED <<session_state, threads, notified>>

\* time.sleep(60) of the except branch returns: the while loop starts the
\* next cycle
Cooldown ==
    /\ pc = "cooldown"
    /\ sleeping' = 0
    /\ pc' = "start"
    /\ UNCHANGED <<feeds, remote, idx, seen_articles, new_links_added, loaded, log>>
    /\ UNCHANGED <<session_state, threads, notified>>

Init ==
    /\ feeds \in FeedConfigs
    /\ remote = Missing
    /\ pc = "start"
    /\ idx = 1
    /\ seen_articles = {}
    /\ new_links_added = FALSE
    /\ sleeping = 0
    /\ loaded = {}
    /\ log = <<>>
    /\ session_state = [s \in Sessions |-> {}]
    /\ threads = [t \in Threads |-> NotStarted]
    /\ notified = [l \in Links |-> "no"]

Next == LoadSeen \/ ProcessFeed \/ SaveDecision \/ Sleep \/ Cooldown

Spec == Init /\ [][Next]_vars

\* the background thread is a daemon thread that runs as long as the process:
\* a step it can take is taken.  The feeds start with fewer entries than in
\* Spec.
LoopInit == Init /\ TotalEntries(feeds) < MaxEntries

FairSpec == LoopInit /\ [][Next]_vars /\ WF_vars(Next)

TypeOK ==
    /\ pc \in {"start", "feeds", "sleep", "cooldown"}
    /\ idx \in 1 .. NumFeeds + 1
    /\ seen_articles \subseteq Links
    /\ sleeping \in {0, CooldownSeconds, IntervalSeconds}

(***************************************************************************)
(* The store on its own: update_seen_links(S), then get_seen_links().      *)
(***************************************************************************)
StoreSave ==
    /\ pc = "st_save"
    /\ \E order \in Orders(seen_articles), outcome \in UploadOutcomes :
          LET r == UpdateSeenLinks(remote, order, outcome)
          IN /\ remote' = r.remote
             /\ log' = <<Event("save", 0, NoLink, r.res)>>
    /\ pc' = "st_load"
    /\ UNCHANGED <<feeds, idx, seen_articles, new_links_added, sleeping, loaded>>
    /\ UNCHANGED <<session_state, threads, notified>>

StoreLoad ==
    /\ pc = "st_load"
    /\ \E outcome \in DownloadOutcomes :
          LET r == GetSeenLinks(remote, outcome)
          IN /\ loaded' = r.links
             /\ log' = Append(log, Event("load", 0, NoLink,
                                         IF r.raised THEN "raise" ELSE r.res))
    /\ pc' = "st_done"
    /\ UNCHANGED <<feeds, remote, idx, seen_articles, new_links_added, sleeping>>
    /\ UNCHANGED <<session_state, threads, notified>>

InitStore ==
    /\ feeds = [f \in RSS_URLS |-> <<>>]
    /\ remote \in {Missing, SerializeLinks(<<<<97>>>>)}
    /\ pc = "st_save"
    /\ idx = 1
    /\ seen_articles \in StoreSets
    /\ new_links_added = TRUE
    /\ sleeping = 0
    /\ loaded = {}
    /\ log = <<>>
    /\ session_state = [s \in Sessions |-> {}]
    /\ threads = [t \in Threads |-> NotStarted]
    /\ notified = [l \in Links |-> "no"]

NextStore == StoreSave \/ StoreLoad

SpecStore == InitStore /\ [][NextStore]_vars

(***************************************************************************)
(* The process with its browser sessions: every script run executes the    *)
(* module top to bottom, and each thread it starts runs background_task.   *)
(* The threads share the remote artifact; seen_articles and                *)
(* new_links_added are locals of each thread's run_pipeline.               *)
(***************************************************************************)
\* if "bot_thread" not in st.session_state
StartGuard(state) == "bot_thread" \notin state

\* the background_task threads that were started
Running == {t \in Threads : threads[t].pc # "none"}

\* one execution of the script for session s (first load or a rerun): the
\* guard, thread.start(), st.session_state.bot_thread = thread
RunScript(s) ==
    /\ IF StartGuard(session_state[s])
       THEN /\ Running # Threads
            /\ threads' = [threads EXCEPT ![Cardinality(Running) + 1] = Started]
            /\ session_state' = [session_state EXCEPT ![s] = @ \cup {"bot_thread"}]
       ELSE UNCHANGED <<threads, session_state>>
    /\ UNCHANGED <<feeds, remote, pc, idx, seen_articles, new_links_added, sleeping,
                   loaded, log, notified>>

\* run_pipeline of thread t, from get_seen_links() to the loop over RSS_URLS
ThreadLoadSeen(t) ==
    /\ threads[t].pc = "start"
    /\ \E outcome \in DownloadOutcomes :
          LET r == GetSeenLinks(remote, outcome)
          IN threads' = [threads EXCEPT ![t] =
                 IF r.raised
                 THEN [@ EXCEPT !.pc = OnException.pc]
                 ELSE [pc |-> "feeds", idx |-> 1, seen |-> r.links, added |-> FALSE]]
    /\ UNCHANGED <<feeds, remote, pc, idx, seen_articles, new_links_added, sleeping,
                   loaded, log, session_state, notified>>

\* one iteration of "for url in RSS_URLS" in thread t
ThreadProcessFeed(t) ==
    /\ threads[t].pc = "feeds"
    /\ threads[t].idx <= NumFeeds
    /\ \E fetchOK \in BOOLEAN, text \in ScrapeOutcomes,
          sum \in SummarizeOutcomes, status \in SendOutcomes :
          LET entries == FetchEntries(feeds[threads[t].idx], fetchOK)
              r == ScanEntries(threads[t].idx, Reversed(entries), threads[t].seen,
                               threads[t].added, text, sum, status)
          IN threads' = [threads EXCEPT ![t] =
                 [pc |-> IF r.raised THEN OnException.pc ELSE "feeds",
                  idx |-> IF r.raised THEN @.idx ELSE @.idx + 1,
                  seen |-> r.seen,
                  added |-> r.added]]
    /\ UNCHANGED <<feeds, remote, pc, idx, seen_articles, new_links_added, sleeping,
                   loaded, log, session_state, notified>>

\* the end of run_pipeline in thread t
ThreadSaveDecision(t) ==
    /\ threads[t].pc = "feeds"
    /\ threads[t].idx > NumFeeds
    /\ IF ShouldSave(threads[t].added)
       THEN \E order \in Orders(threads[t].seen), outcome \in UploadOutcomes :
               remote' = UpdateSeenLinks(remote, order, outcome).remote
       ELSE UNCHANGED remote
    /\ threads' = [threads EXCEPT ![t].pc = OnReturn.pc]
    /\ UNCHANGED <<feeds, pc, idx, seen_articles, new_links_added, sleeping,
                   loaded, log, session_state, notified>>

\* either time.sleep of thread t returns
ThreadWake(t) ==
    /\ threads[t].pc \in {OnReturn.pc, OnException.pc}
    /\ threads' = [threads EXCEPT ![t].pc = "start"]
    /\ UNCHANGED <<feeds, remote, pc, idx, seen_articles, new_links_added, sleeping,
                   loaded, log, session_state, notified>>

\* no thread runs before a session's first script run
InitSessions == LoopInit

NextSessions ==
    \/ \E s \in Sessions : RunScript(s)
    \/ \E t \in Threads :
          \/ ThreadLoadSeen(t)
          \/ ThreadProcessFeed(t)
          \/ ThreadSaveDecision(t)
          \/ ThreadWake(t)

SpecSessions == InitSessions /\ [][NextSessions]_vars

(***************************************************************************)
(* C11: however often the script is re-executed, and from however many     *)
(* sessions, background_task is started exactly once in the process: at    *)
(* no time have two threads been started.  The guard reads                 *)
(* st.session_state, which every session has of its own, so the script run *)
(* of a second session starts a second thread.                             *)
(***************************************************************************)
C11_StartedOnce == Cardinality(Running) <= 1

\* the threads whose run_pipeline is between its load and its save
InCycle == {t \in Threads : threads[t].pc = "feeds"}

(***************************************************************************)
(* C12: at every moment at most one run_pipeline is between its load and   *)
(* its save.  With the two threads of C11 two cycles overlap.              *)
(***************************************************************************)
C12_NoConcurrentCycles == Cardinality(InCycle) <= 1

(***************************************************************************)
(* The loop with a record of the notifications of the cycles that ended:   *)
(* the same cycle, and at the end of each cycle its calls of               *)
(* send_telegram_message are noted per link.                               *)
(***************************************************************************)
\* the record after a cycle with the calls lg: "failed" once a delivery of the
\* link failed, "sent" when every call for it was answered with 200
NoteSends(n, lg) ==
    [l \in Links |->
        IF \E i \in DOMAIN lg : lg[i].op = "send" /\ lg[i].link = l /\ lg[i].res # "200"
        THEN "failed"
        ELSE IF n[l] = "no" /\ \E i \in DOMAIN lg : lg[i].op = "send" /\ lg[i].link = l
        THEN "sent"
        ELSE n[l]]

\* time.sleep(1800) returns
SleepNoting ==
    /\ pc = "sleep"
    /\ sleeping' = 0
    /\ pc' = "start"
    /\ notified' = NoteSends(notified, log)
    /\ UNCHANGED <<feeds, remote, idx, seen_articles, new_links_added, loaded, log,
                   session_state, threads>>

\* time.sleep(60) of the except branch returns
CooldownNoting ==
    /\ pc = "cooldown"
    /\ sleeping' = 0
    /\ pc' = "start"
    /\ notified' = NoteSends(notified, log)
    /\ UNCHANGED <<feeds, remote, idx, seen_articles, new_links_added, loaded, log,
                   session_state, threads>>

InitHistory == LoopInit

NextHistory == LoadSeen \/ ProcessFeed \/ SaveDecision \/ SleepNoting \/ CooldownNoting

SpecHistory == InitHistory /\ [][NextHistory]_vars

(***************************************************************************)
(* Reading the log of a cycle.                                             *)
(***************************************************************************)
Events(op) == {i \in DOMAIN log : log[i].op = op}

EventsOf(op, f) == {i \in DOMAIN log : log[i].op = op /\ log[i].feed = f}

LinksOf(op) == {log[i].link : i \in Events(op)}

\* the in-memory seen set just before the i-th event of the cycle
SeenBefore(i) == loaded \cup {log[j].link : j \in {k \in Events("add") : k < i}}

\* the entries of feed f that are unseen when event i happens
UnseenAt(f, i) == {p \in DOMAIN feeds[f] : feeds[f][p] \notin SeenBefore(i)}

Max(S) == CHOOSE x \in S : \A y \in S : y <= x

FetchedOK(f) == \E i \in EventsOf("fetch", f) : log[i].res = "ok"

\* the fetch event of feed f (the first one, should there be several)
FetchIndex(f) == CHOOSE i \in EventsOf("fetch", f) : \A j \in EventsOf("fetch", f) : i <= j

\* the feed document lists its entries newest first, as RSS feeds do
NewestFirst(f) ==
    \A p, q \in DOMAIN feeds[f] : p < q => Published(feeds[f][p]) >= Published(feeds[f][q])

Raised == log # <<>> /\ log[Len(log)].res = "raise"

(***************************************************************************)
(* C1. In one run of run_pipeline every feed has at most one entry         *)
(* scraped, summarized, notified and added, however many unseen entries it *)
(* lists; so a cycle sends at most one notification per feed and at most   *)
(* len(RSS_URLS) in all.                                                   *)
(***************************************************************************)
C1_AtMostOnePerFeed ==
    /\ \A f \in RSS_URLS : \A op \in {"fetch", "scrape", "summarize", "send", "add"} :
          Cardinality(EventsOf(op, f)) <= 1
    /\ Cardinality(Events("send")) <= NumFeeds

\* a feed was notified once and still lists an unseen entry when the cycle ends
C1_Witness ==
    /\ pc = "sleep"
    /\ \E f \in RSS_URLS :
          /\ Cardinality(EventsOf("send", f)) = 1
          /\ UnseenAt(f, Len(log) + 1) # {}

(***************************************************************************)
(* C2 as stated: a fetched feed with N >= 2 unseen entries has exactly one *)
(* of them processed in every completed cycle, and the next cycle has the  *)
(* entries processed before in its seen set, so that it moves on to the    *)
(* next one.                                                               *)
(***************************************************************************)
ExactlyOneProcessed(f) ==
    \A op \in {"scrape", "summarize", "send", "add"} : Cardinality(EventsOf(op, f)) = 1

BacklogAt(f) == FetchedOK(f) /\ Cardinality(UnseenAt(f, FetchIndex(f))) >= 2

C2_OnePerCycle ==
    pc = "sleep" => \A f \in RSS_URLS : BacklogAt(f) => ExactlyOneProcessed(f)

C2_NextCycleMovesOn ==
    (pc = "start" /\ pc' = "feeds" /\ log # <<>> /\ ~Raised)
        => LinksOf("add") \subseteq loaded'

C2_Original == []C2_OnePerCycle /\ [][C2_NextCycleMovesOn]_vars

(***************************************************************************)
(* C2 amended: a fetched feed with N >= 2 unseen entries has exactly one   *)
(* of them scraped per cycle, the last unseen one in the listed order; it  *)
(* is summarized, notified and added exactly when the extraction returned  *)
(* text and the summarization did not raise.  The next cycle starts from   *)
(* the set the cycle before ended with, and so moves on, when the upload   *)
(* of the cycle before and its own download both succeeded.                *)
(***************************************************************************)
C2_FeedPass(f) ==
    BacklogAt(f) =>
        LET sel == feeds[f][Max(UnseenAt(f, FetchIndex(f)))]
            done == \E j \in EventsOf("summarize", f) : log[j].res = "ok"
        IN /\ Cardinality(EventsOf("scrape", f)) = 1
           /\ \A j \in EventsOf("scrape", f) : log[j].link = sel
           /\ IF done
              THEN /\ Cardinality(EventsOf("send", f)) = 1
                   /\ Cardinality(EventsOf("add", f)) = 1
                   /\ \A j \in EventsOf("add", f) : log[j].link = sel
                   /\ sel \in seen_articles
              ELSE /\ EventsOf("send", f) = {}
                   /\ EventsOf("add", f) = {}
           /\ done => \E j \in EventsOf("scrape", f) : log[j].res = "text"

C2_Pass == \A f \in RSS_URLS : C2_FeedPass(f)

C2_Reload ==
    (/\ pc = "start" /\ pc' = "feeds"
     /\ log # <<>> /\ log[Len(log)] = Event("save", 0, NoLink, "ok")
     /\ log'[1].res = "ok")
        => (loaded' = seen_articles /\ LinksOf("add") \subseteq loaded')

C2_Amended == []C2_Pass /\ [][C2_Reload]_vars

\* the cycle before notified one entry of a feed and saved; this cycle loaded
\* it and notified the entry listed just before it
C2_Witness ==
    \E f \in RSS_URLS : \E p, q \in DOMAIN feeds[f] :
        /\ p < q
        /\ feeds[f][p] # feeds[f][q]
        /\ feeds[f][q] \in loaded
        /\ \E j \in EventsOf("add", f) : log[j].link = feeds[f][p]
        /\ \E j \in Events("load") : log[j].res = "ok"

(***************************************************************************)
(* C3 as stated: the entry a cycle selects in a feed is the chronologically*)
(* earliest of the feed's unseen entries.                                  *)
(***************************************************************************)
C3_Original ==
    \A i \in Events("scrape") :
        \A p \in UnseenAt(log[i].feed, i) :
            Published(log[i].link) <= Published(feeds[log[i].feed][p])

(***************************************************************************)
(* C3 amended: the entry a cycle selects in a feed is the last unseen one  *)
(* in the order the feed lists its entries; it is the chronologically      *)
(* earliest unseen one when the feed lists its entries newest first.       *)
(***************************************************************************)
C3_Amended ==
    \A i \in Events("scrape") :
        LET f == log[i].feed
            U == UnseenAt(f, i)
        IN /\ U # {}
           /\ log[i].link = feeds[f][Max(U)]
           /\ NewestFirst(f) =>
                 \A p \in U : Published(log[i].link) <= Published(feeds[f][p])

\* a feed lists its entries newest first, several are unseen, and the oldest
\* of them, the last one listed, is selected
C3_Witness ==
    \E i \in Events("scrape") :
        LET f == log[i].feed
            n == Len(feeds[f])
        IN /\ n >= 2
           /\ \A p \in 1 .. n - 1 : Published(feeds[f][p]) > Published(feeds[f][p + 1])
           /\ UnseenAt(f, i) = DOMAIN feeds[f]
           /\ log[i].link = feeds[f][n]

(***************************************************************************)
(* C4. A link is added to the seen set in a cycle if and only if            *)
(* send_telegram_message was called for it in that cycle, whatever the     *)
(* delivery did (200, another status, transport error).                    *)
(***************************************************************************)
C4_AddedIffSendAttempted ==
    /\ LinksOf("add") = LinksOf("send")
    /\ seen_articles = loaded \cup LinksOf("send")
    /\ \A i \in Events("send") :
          /\ i < Len(log)
          /\ log[i + 1] = Event("add", log[i].feed, log[i].link, "ok")
    /\ \A i \in Events("add") :
          /\ i > 1
          /\ log[i - 1].op = "send"
          /\ log[i - 1].link = log[i].link

\* a delivery failed with a transport error, another with a non-200 answer,
\* and both links are in the seen set
C4_Witness ==
    /\ \E i \in Events("send") :
          log[i].res = "error" /\ log[i].link \in seen_articles \ loaded
    /\ \E i \in Events("send") :
          log[i].res = "non200" /\ log[i].link \in seen_articles \ loaded

(***************************************************************************)
(* C5. A completed cycle calls update_seen_links exactly when a link was   *)
(* added in it; a cycle that added nothing does not write the remote       *)
(* artifact.                                                               *)
(***************************************************************************)
C5_SaveIffAdded ==
    /\ Cardinality(Events("save")) <= 1
    /\ Events("save") # {} => Events("add") # {}
    /\ pc = "sleep" => (Events("save") # {} <=> Events("add") # {})

C5_EndOfCycle ==
    (pc = "feeds" /\ pc' = "sleep") =>
        IF Events("add") = {}
        THEN remote' = remote /\ log' = log
        ELSE /\ Len(log') = Len(log) + 1
             /\ log'[Len(log')].op = "save"
             /\ log'[Len(log')].res = "ok" => ParseFile(remote') = seen_articles
             /\ log'[Len(log')].res # "ok" => remote' = remote

C5_SaveExactlyWhenAdded == []C5_SaveIffAdded /\ [][C5_EndOfCycle]_vars

\* a cycle fetched feeds whose entries were all seen before, and ended
\* without a save
C5_Witness ==
    /\ pc = "sleep"
    /\ Events("save") = {}
    /\ \A f \in RSS_URLS : FetchedOK(f)
    /\ \E f \in RSS_URLS : feeds[f] # <<>>
    /\ \A f \in RSS_URLS : \A p \in DOMAIN feeds[f] : feeds[f][p] \in loaded

(***************************************************************************)
(* C6 as stated: when scrape_article_text returns nothing for the selected *)
(* entry of a feed, the link is not added to the seen set in that cycle    *)
(* and no notification is sent for it, no other entry of the feed is       *)
(* tried, and the cycle goes on with the next feed.                        *)
(***************************************************************************)
C6_Original ==
    \A i \in Events("scrape") :
        log[i].res = "none" =>
            /\ log[i].link \notin seen_articles
            /\ log[i].link \notin LinksOf("send")
            /\ EventsOf("scrape", log[i].feed) = {i}
            /\ idx > log[i].feed

(***************************************************************************)
(* C6 amended: when scrape_article_text returns nothing for the selected   *)
(* entry of a feed, that feed's pass adds no link and sends no             *)
(* notification, no other entry of the feed is tried, and the cycle goes   *)
(* on with the next feed; the link can still be added in that cycle, but   *)
(* only by a later feed that lists it too.                                 *)
(***************************************************************************)
C6_Amended ==
    \A i \in Events("scrape") :
        log[i].res = "none" =>
            LET f == log[i].feed
            IN /\ EventsOf("scrape", f) = {i}
               /\ \A op \in {"summarize", "send", "add"} : EventsOf(op, f) = {}
               /\ \A j \in Events("send") \cup Events("add") :
                     log[j].link = log[i].link => log[j].feed > f
               /\ log[i].link \in seen_articles => log[i].link \in LinksOf("add")
               /\ pc # "cooldown" \/ i < Len(log)
               /\ i < Len(log) =>
                     \/ log[i + 1] = Event("fetch", f + 1, NoLink, "ok")
                     \/ log[i + 1] = Event("fetch", f + 1, NoLink, "fail")
                     \/ f = NumFeeds /\ log[i + 1].op = "save"
               /\ idx > f

\* the extraction failed for the selected entry of a feed that lists another
\* unseen entry, and the next feed was fetched
C6_Witness ==
    \E i \in Events("scrape") :
        /\ log[i].res = "none"
        /\ Cardinality(UnseenAt(log[i].feed, i)) >= 2
        /\ log[i].feed < NumFeeds
        /\ EventsOf("fetch", log[i].feed + 1) # {}
        /\ log[i].link \notin seen_articles

(***************************************************************************)
(* C7 as stated: update_seen_links(S) followed by get_seen_links() returns *)
(* S, for every set S of link identifiers.                                 *)
(***************************************************************************)
C7_Original == pc = "st_done" => loaded = seen_articles

(***************************************************************************)
(* C7 amended: when the upload and the download both succeed,              *)
(* update_seen_links(S) followed by get_seen_links() returns S, whatever   *)
(* the order of the lines, for every set S of identifiers that have no     *)
(* line break in them and no white space at either end.                    *)
(***************************************************************************)
WellFormedLink(l) == Strip(l) = l /\ \A i \in DOMAIN l : l[i] \notin {LF, CR}

C7_Amended ==
    (/\ pc = "st_done"
     /\ log[1].res = "ok" /\ log[2].res = "ok"
     /\ \A l \in seen_articles : WellFormedLink(l))
        => (loaded = seen_articles /\ ParseFile(remote) = seen_articles)

\* {"a", "b"} was written as "b\na\n" and read back
C7_Witness ==
    /\ pc = "st_done"
    /\ seen_articles = {<<97>>, <<98>>}
    /\ remote = <<98, LF, 97, LF>>
    /\ log[1].res = "ok" /\ log[2].res = "ok"
    /\ loaded = {<<97>>, <<98>>}

(***************************************************************************)
(* C8. get_seen_links never raises: when the remote artifact does not      *)
(* exist or the download fails, the cycle goes on with an empty seen set.  *)
(***************************************************************************)
C8_LoadStep ==
    (pc = "start" /\ pc' # "start") =>
        /\ pc' = "feeds"
        /\ Len(log') = 1 /\ log'[1].op = "load" /\ log'[1].res \in {"ok", "fresh"}
        /\ remote = Missing => log'[1].res = "fresh"
        /\ log'[1].res = "fresh" => (loaded' = {} /\ seen_articles' = {})
        /\ log'[1].res = "ok" => (loaded' = ParseFile(remote) /\ seen_articles' = loaded')

C8_LoadNeverRaises ==
    [](pc = "cooldown" => Len(log) > 1) /\ [][C8_LoadStep]_vars

\* the artifact exists with links in it, the download failed, and the cycle
\* runs with an empty seen set
C8_Witness ==
    /\ pc = "feeds"
    /\ Len(log) = 1 /\ log[1].res = "fresh"
    /\ remote # Missing /\ ParseFile(remote) # {}
    /\ seen_articles = {}

(***************************************************************************)
(* C9. A feed whose fetch fails yields no entries and stops neither the    *)
(* feeds before it nor the feeds after it from being processed in the same *)
(* cycle, nor the save at the end when another feed added a link.          *)
(***************************************************************************)
C9_FailureIsolation ==
    /\ \A i \in Events("fetch") :
          log[i].res = "fail" =>
              LET f == log[i].feed
              IN /\ \A op \in {"scrape", "summarize", "send", "add"} : EventsOf(op, f) = {}
                 /\ pc # "cooldown" \/ i < Len(log)
                 /\ i < Len(log) =>
                       \/ log[i + 1].op = "fetch" /\ log[i + 1].feed = f + 1
                       \/ f = NumFeeds /\ log[i + 1].op = "save"
                 /\ idx > f
    /\ \A g \in RSS_URLS :
          (FetchedOK(g) /\ UnseenAt(g, FetchIndex(g)) # {}) => EventsOf("scrape", g) # {}
    /\ pc = "sleep" =>
          /\ \A g \in RSS_URLS : Cardinality(EventsOf("fetch", g)) = 1
          /\ Events("add") # {} => Events("save") # {}

\* the first feed could not be fetched although it lists an unseen entry, the
\* second feed had a link notified and added, and the set was saved
C9_Witness ==
    /\ pc = "sleep"
    /\ \E i \in EventsOf("fetch", 1) : log[i].res = "fail" /\ UnseenAt(1, i) # {}
    /\ EventsOf("add", NumFeeds) # {}
    /\ \E i \in Events("save") : log[i].res = "ok"

(***************************************************************************)
(* C10. The background loop does not end on an exception raised inside a   *)
(* cycle: the exception is caught, the loop sleeps 60 seconds instead of   *)
(* 1800, and the next cycle starts.                                        *)
(***************************************************************************)
C10_Caught ==
    /\ pc \in {"start", "feeds", "sleep", "cooldown"}
    /\ pc = "cooldown" => Raised
    /\ Raised => pc \in {"cooldown", "start"}
    /\ pc = "cooldown" <=> sleeping = CooldownSeconds
    /\ pc = "sleep" <=> sleeping = IntervalSeconds

C10_CooldownStep ==
    /\ pc = "cooldown" => pc' = "start"
    /\ pc' = "cooldown" => (pc = "feeds" /\ Raised')

C10_LoopSurvives ==
    /\ []C10_Caught
    /\ [][C10_CooldownStep]_vars
    /\ (pc = "cooldown") ~> (pc = "feeds" /\ Len(log) = 1)

\* the summarization raised and the loop is in its 60 second sleep
C10_Witness ==
    /\ pc = "cooldown"
    /\ sleeping = CooldownSeconds
    /\ log[Len(log)].op = "summarize"
    /\ log[Len(log)].res = "raise"

(***************************************************************************)
(* C13 as stated: every cycle that added a link ends with a call of        *)
(* update_seen_links before the next load, and a cycle that was started    *)
(* runs to completion through the save decision.                           *)
(***************************************************************************)
\* the cycle whose calls are in the log has ended
CycleEnded == log # <<>> /\ pc \in {"start", "sleep", "cooldown"}

C13_Original ==
    CycleEnded =>
        /\ ~Raised
        /\ Events("add") # {} => log[Len(log)].op = "save"

(***************************************************************************)
(* C13 amended: a cycle that run_pipeline returns from, and in which a     *)
(* link was added, ends with one call of update_seen_links that carries    *)
(* every link added in the cycle, and no call of the cycle follows it.  A  *)
(* cycle that an exception leaves ends without a call of                   *)
(* update_seen_links and the remote artifact is as it was, whatever was    *)
(* added before the exception.                                             *)
(***************************************************************************)
C13_Ended ==
    /\ (CycleEnded /\ ~Raised /\ Events("add") # {}) =>
           /\ log[Len(log)].op = "save"
           /\ Events("save") = {Len(log)}
           /\ LinksOf("add") \subseteq seen_articles
    /\ Raised => Events("save") = {}

C13_SaveStep ==
    /\ (pc = "feeds" /\ pc' = "sleep" /\ Events("add") # {}) =>
           /\ log' = Append(log, Event("save", 0, NoLink, log'[Len(log')].res))
           /\ log'[Len(log')].res = "ok" =>
                  /\ remote' # Missing
                  /\ LinksOf("add") \subseteq ParseFile(remote')
    /\ (pc = "feeds" /\ pc' = "cooldown") => (remote' = remote /\ Events("save")' = {})
    /\ (pc = "start" /\ log # <<>> /\ ~Raised /\ Events("add") # {} /\ log' # log) =>
           log[Len(log)].op = "save"

C13_Amended == []C13_Ended /\ [][C13_SaveStep]_vars

\* both feeds had a link added and the save that ended the cycle carried both
C13_Witness ==
    /\ pc = "sleep"
    /\ Cardinality(LinksOf("add")) = 2
    /\ log[Len(log)].op = "save"
    /\ log[Len(log)].res = "ok"
    /\ ParseFile(remote) = LinksOf("add")

(***************************************************************************)
(* C14 as stated: a failing update_seen_links does not raise and leaves    *)
(* the remote artifact unchanged; the cycle completes, the next cycle's    *)
(* get_seen_links returns the contents the artifact had before the failed  *)
(* cycle, and the links added in the failed cycle are unseen again.        *)
(***************************************************************************)
\* the cycle in the log ended with an update_seen_links that failed
FailedSave ==
    /\ log # <<>>
    /\ log[Len(log)].op = "save"
    /\ log[Len(log)].res = "error"

\* the links in the remote artifact
StoreContents == IF remote = Missing THEN {} ELSE ParseFile(remote)

C14_FailingSaveStep ==
    (pc = "feeds" /\ FailedSave') => (remote' = remote /\ pc' = "sleep")

C14_Original ==
    [][/\ C14_FailingSaveStep
       /\ (pc = "start" /\ FailedSave /\ log' # log) =>
              /\ loaded' = StoreContents
              /\ LinksOf("add") \cap loaded' = {}]_vars

(***************************************************************************)
(* C14 amended: a failing update_seen_links does not raise and leaves the  *)
(* remote artifact unchanged, and the cycle completes.  The next cycle's   *)
(* get_seen_links returns the unchanged contents when its download         *)
(* succeeds and the empty set when it fails.  The links added in the       *)
(* failed cycle are unseen again, except those the artifact already held,  *)
(* which happens only when the failed cycle itself started from a failed   *)
(* download.                                                               *)
(***************************************************************************)
C14_Unchanged ==
    (FailedSave /\ log[1].res = "ok") => (remote # Missing /\ ParseFile(remote) = loaded)

C14_NextLoadStep ==
    (pc = "start" /\ FailedSave /\ log' # log) =>
        /\ pc' = "feeds"
        /\ remote' = remote
        /\ log'[1].res = "ok" => (remote # Missing /\ loaded' = ParseFile(remote))
        /\ log'[1].res # "ok" => loaded' = {}
        /\ \A l \in LinksOf("add") :
              l \in loaded' => (log[1].res = "fresh" /\ l \in StoreContents)

C14_Amended ==
    /\ []C14_Unchanged
    /\ [][C14_FailingSaveStep /\ C14_NextLoadStep]_vars

\* a cycle loaded a non-empty set, added a link, and its save failed
C14_Witness ==
    /\ pc = "sleep"
    /\ FailedSave
    /\ log[1].res = "ok"
    /\ loaded # {}
    /\ LinksOf("add") # {}
    /\ ParseFile(remote) = loaded

(***************************************************************************)
(* C15 as stated: a link whose delivery failed is still added to the seen  *)
(* set, and no later cycle calls send_telegram_message for that link       *)
(* again.                                                                  *)
(***************************************************************************)
\* the log is that of the cycle that runs or has just ended, and notified
\* covers the cycles before it
CycleAfterNoting == pc \in {"feeds", "sleep", "cooldown"}

\* the sends of the cycle whose delivery failed
FailedSends == {i \in Events("send") : log[i].res # "200"}

C15_Original ==
    CycleAfterNoting =>
        \A i \in Events("send") :
            /\ i \in FailedSends => log[i].link \in seen_articles
            /\ notified[log[i].link] # "failed"

(***************************************************************************)
(* C15 amended: a link whose delivery failed is still added to the seen    *)
(* set of its cycle.  A later cycle calls send_telegram_message for it     *)
(* again only when the seen set that cycle loaded does not hold the link;  *)
(* the next cycle's set holds it when the save of the cycle succeeded and  *)
(* the next download succeeded.                                            *)
(***************************************************************************)
C15_AddedAndSkipped ==
    CycleAfterNoting =>
        \A i \in Events("send") :
            /\ i \in FailedSends =>
                  /\ i + 1 \in Events("add")
                  /\ log[i + 1].link = log[i].link
                  /\ log[i].link \in seen_articles
            /\ notified[log[i].link] = "failed" => log[i].link \notin loaded

C15_Persisted ==
    (/\ pc = "start" /\ log # <<>> /\ log' # log
     /\ log[Len(log)].op = "save" /\ log[Len(log)].res = "ok"
     /\ log'[1].res = "ok") =>
        {log[i].link : i \in FailedSends} \subseteq loaded'

C15_Amended == []C15_AddedAndSkipped /\ [][C15_Persisted]_vars

\* a cycle loaded a link whose delivery had failed in an earlier cycle,
\* fetched the feed that still lists it, and sent nothing
C15_Witness ==
    /\ pc = "sleep"
    /\ Events("send") = {}
    /\ \E f \in RSS_URLS :
          /\ FetchedOK(f)
          /\ \E p \in DOMAIN feeds[f] :
                notified[feeds[f][p]] = "failed" /\ feeds[f][p] \in loaded

(***************************************************************************)
(* C16 as stated: over any sequence of cycles of one loop, a link that was *)
(* notified in some cycle is not notified again in a later cycle.          *)
(***************************************************************************)
C16_Original ==
    CycleAfterNoting => \A i \in Events("send") : notified[log[i].link] = "no"

(***************************************************************************)
(* C16 amended: a link that was notified in some cycle is not notified     *)
(* again, nor scraped, in a later cycle whose get_seen_links returned it.  *)
(* The next cycle's get_seen_links returns the whole seen set of a cycle   *)
(* when that cycle's save succeeded and the next download succeeded.       *)
(***************************************************************************)
C16_LoadedNotResent ==
    CycleAfterNoting =>
        \A l \in Links :
            (notified[l] # "no" /\ l \in loaded) =>
                l \notin LinksOf("send") \cup LinksOf("scrape")

C16_Reloaded ==
    (/\ pc = "start" /\ log # <<>> /\ log' # log
     /\ log[Len(log)].op = "save" /\ log[Len(log)].res = "ok"
     /\ log'[1].res = "ok") =>
        /\ loaded' = seen_articles
        /\ LinksOf("send") \subseteq loaded'

C16_Amended == []C16_LoadedNotResent /\ [][C16_Reloaded]_vars

\* a cycle loaded a link that an earlier cycle delivered, fetched the feed
\* that still lists it, and sent nothing
C16_Witness ==
    /\ pc = "sleep"
    /\ Events("send") = {}
    /\ \E f \in RSS_URLS :
          /\ FetchedOK(f)
          /\ \E p \in DOMAIN feeds[f] :
                notified[feeds[f][p]] = "sent" /\ feeds[f][p] \in loaded

(***************************************************************************)
(* C17 as stated: the persisted seen set only grows; after any sequence of *)
(* cycles, those with a failed load or save included, every link that was  *)
(* in the remote artifact is still in it.                                  *)
(***************************************************************************)
C17_Original == [][StoreContents \subseteq StoreContents']_vars

(***************************************************************************)
(* C17 amended: the remote artifact changes only in a save that succeeds,  *)
(* and once it exists it stays.  In a cycle whose download succeeded the   *)
(* save keeps every link the artifact held.  In a cycle whose download     *)
(* failed the seen set started empty, and the save replaces the artifact   *)
(* by the links added in that cycle alone.                                 *)
(***************************************************************************)
C17_StoreStep ==
    /\ remote # Missing => remote' # Missing
    /\ remote' # remote =>
          /\ pc = "feeds" /\ pc' = "sleep"
          /\ log'[Len(log')].op = "save" /\ log'[Len(log')].res = "ok"
          /\ StoreContents' = seen_articles
          /\ log[1].res = "ok" => StoreContents \subseteq StoreContents'
          /\ log[1].res # "ok" => StoreContents' = LinksOf("add")

C17_Amended == [][C17_StoreStep]_vars

\* a cycle loaded a non-empty set, added a link to it, and saved both
C17_Witness ==
    /\ pc = "sleep"
    /\ log[1].res = "ok"
    /\ loaded # {}
    /\ log[Len(log)].op = "save"
    /\ log[Len(log)].res = "ok"
    /\ StoreContents = loaded \cup LinksOf("add")
    /\ LinksOf("add") \ loaded # {}

(***************************************************************************)
(* C18: within one cycle no link is notified twice, also when several      *)
(* feeds list it or one feed lists it several times: every call of         *)
(* send_telegram_message is for a link that is neither in the loaded set   *)
(* nor among the links added earlier in the cycle.                         *)
(***************************************************************************)
C18_OncePerCycle ==
    \A i \in Events("send") :
        /\ log[i].link \notin SeenBefore(i)
        /\ \A j \in Events("send") : log[j].link = log[i].link => j = i

\* both feeds list the same unseen link and were fetched; the first feed's
\* pass notified it and the second feed's pass sent nothing
C18_Witness ==
    /\ pc = "sleep"
    /\ \A f \in RSS_URLS : FetchedOK(f)
    /\ \E l \in Links \ loaded :
          /\ \A f \in RSS_URLS : \E p \in DOMAIN feeds[f] : feeds[f][p] = l
          /\ \E i \in Events("send") : log[i].link = l /\ log[i].feed = 1
    /\ Cardinality(Events("send")) = 1

====
